---- MODULE Spec2Model ----
(***************************************************************************)
(* Model of the posts page component (PostsPage) and of the remote calls   *)
(* it issues through PostsService.  Text is a sequence of one-character    *)
(* strings; an absent identifier is NoId; a null form value is Null; a     *)
(* null editingPost is NoPost; a null message is NoMessage.                *)
(***************************************************************************)
EXTENDS Integers, Sequences, FiniteSets, Bags, TLC

\* ---------------------------------------------------------------- bounds
MaxPending == 2
MaxCalls == 3

\* ------------------------------------------------------------- constants
TitleMaxLength == 100
BodyMaxLength == 500
IdFloor == 100
FixedUserId == 1

\* ------------------------------------------------------------------ text
Upper == <<"A","B","C","D","E","F","G","H","I","J","K","L","M",
           "N","O","P","Q","R","S","T","U","V","W","X","Y","Z">>

Lower == <<"a","b","c","d","e","f","g","h","i","j","k","l","m",
           "n","o","p","q","r","s","t","u","v","w","x","y","z">>

Digits == <<"0","1","2","3","4","5","6","7","8","9">>

LowerChar(c) ==
  IF \E i \in 1..26 : Upper[i] = c
  THEN Lower[CHOOSE i \in 1..26 : Upper[i] = c]
  ELSE c

toLowerCase(s) == [i \in 1..Len(s) |-> LowerChar(s[i])]

IsSpace(c) == c = " "

RECURSIVE trimStart(_)
trimStart(s) ==
  IF s # <<>> /\ IsSpace(Head(s)) THEN trimStart(Tail(s)) ELSE s

RECURSIVE trimEnd(_)
trimEnd(s) ==
  IF s # <<>> /\ IsSpace(s[Len(s)]) THEN trimEnd(SubSeq(s, 1, Len(s) - 1)) ELSE s

trim(s) == trimEnd(trimStart(s))

includes(s, t) ==
  \E i \in 0..(Len(s) - Len(t)) : SubSeq(s, i + 1, i + Len(t)) = t

RECURSIVE toString(_)
toString(n) ==
  IF n < 10 THEN <<Digits[n + 1]>>
  ELSE Append(toString(n \div 10), Digits[(n % 10) + 1])

Rep(c, n) == [i \in 1..n |-> c]

\* ----------------------------------------------------------------- Post
NoId == -1

Null == <<"null">>

Post(id, userId, title, body) ==
  [id |-> id, userId |-> userId, title |-> title, body |-> body]

NoPost == Post(NoId, 0, <<>>, <<>>)

NoMessage == <<>>

\* Entries the remote collection serves (identifier in 1..100, or none).
ServerPosts ==
  { Post(7, 3, <<"H","e","l","l","o">>, <<"w","o","r","l","d">>),
    Post(NoId, 2, <<"D","r","a","f","t">>, <<"x">>) }

RECURSIVE DistinctLists(_)
DistinctLists(n) ==
  IF n = 0 THEN { <<>> }
  ELSE LET shorter == DistinctLists(n - 1)
       IN shorter \cup
          { Append(l, p) : <<l, p>> \in
              { <<l, p>> \in shorter \X ServerPosts :
                  \A k \in DOMAIN l : l[k].id # p.id } }

\* What a successful getAll can deliver: pairwise distinct identifiers.
FetchResults == DistinctLists(Cardinality(ServerPosts))

\* Identifier the remote service puts on the entry it echoes on create.
CreatedIds == {NoId, IdFloor + 1}

\* What the user can type into the form: <<title, body>>.
FormInputs ==
  { << <<"X">>, <<"B">> >>,
    << <<>>, <<"B">> >>,
    << Rep("t", TitleMaxLength + 1), <<"B">> >>,
    << <<"X">>, Rep("b", BodyMaxLength + 1) >> }

\* What the user can type into the search box.
SearchInputs ==
  { <<>>, <<"H","E","L">> }

\* ----------------------------------------------------------------- state
VARIABLES
  allPosts,      \* full list (mirror)
  posts,         \* filtered list (displayed)
  form,          \* [title, body] values of the form controls
  searchTerm,
  editingPost,   \* entry under edit, NoPost in create mode
  loading,       \* busy flag
  message,       \* status message
  pending,       \* remote calls in flight (a bag of requests)
  calls,         \* history: number of remote calls issued
  generatedIds   \* history: identifiers generateNewId has returned

vars == <<allPosts, posts, form, searchTerm, editingPost, loading, message,
          pending, calls, generatedIds>>

\* ------------------------------------------------------------- messages
MsgLoaded(n) == <<"posts cargados exitosamente", toString(n)>>
MsgLoadError == <<"Error al cargar posts">>
MsgWarning == <<"Complete todos los campos correctamente">>
MsgCreated(title) == <<"creado exitosamente", title>>
MsgCreateError == <<"Error al crear el post">>
MsgUpdated == <<"Post actualizado exitosamente">>
MsgUpdateError == <<"Error al actualizar el post">>
MsgDeleted == <<"Post eliminado exitosamente">>
MsgDeleteError == <<"Error al eliminar el post">>
MsgEditing(title) == <<"Editando", title>>
MsgFound(n, term) == <<"posts encontrados para", toString(n), term>>

\* -------------------------------------------------------------- helpers
Max(S) == CHOOSE m \in S : \A x \in S : x <= m

Ids(list) == { list[k].id : k \in DOMAIN list }

\* Remote calls in flight: issuing one, and delivering its outcome.
InFlight == BagToSet(pending)

Send(bag, request) == bag (+) SetToBag({request})

Done(bag, request) == bag (-) SetToBag({request})

Request(kind, post) == [kind |-> kind, post |-> post]

\* Validators.required and Validators.maxLength(n) on one control value.
required(v) == v # Null /\ Len(v) > 0

\* Variant accepting one character more.
maxLength_OffByOne(v, n) == v = Null \/ Len(v) <= n + 1

maxLength(v, n) == v = Null \/ Len(v) <= n

formValid(f) ==
  /\ required(f.title) /\ maxLength(f.title, TitleMaxLength)
  /\ required(f.body) /\ maxLength(f.body, BodyMaxLength)

\* p.id || 0
idOrZero(p) == IF p.id = NoId THEN 0 ELSE p.id

\* Variant without the floor.
generateNewId_NoFloor(list) ==
  Max({ idOrZero(list[k]) : k \in DOMAIN list } \cup {0}) + 1

\* Variant that ignores the list.
generateNewId_Constant(list) == IdFloor + 1

generateNewId(list) ==
  Max({ idOrZero(list[k]) : k \in DOMAIN list } \cup {IdFloor}) + 1

\* Variant that compares title and body without lowercasing them.
matches_CaseSensitive(post, term) ==
  \/ includes(post.title, toLowerCase(term))
  \/ includes(post.body, toLowerCase(term))
  \/ (post.id # NoId /\ includes(toString(post.id), term))
  \/ includes(toString(post.userId), term)

matches(post, term) ==
  \/ includes(toLowerCase(post.title), toLowerCase(term))
  \/ includes(toLowerCase(post.body), toLowerCase(term))
  \/ (post.id # NoId /\ includes(toString(post.id), term))
  \/ includes(toString(post.userId), term)

\* The list applyCurrentFilter stores in posts.
applyCurrentFilter(list, term) ==
  IF trim(term) = <<>> THEN list
  ELSE LET Keep(p) == matches(p, term) IN SelectSeq(list, Keep)

CanIssue == BagCardinality(pending) < MaxPending /\ calls < MaxCalls

\* ----------------------------------------------------------------- Init
Init ==
  /\ allPosts = <<>>
  /\ posts = <<>>
  /\ form = [title |-> <<>>, body |-> <<>>]
  /\ searchTerm = <<>>
  /\ editingPost = NoPost
  /\ loading = FALSE
  /\ message = NoMessage
  /\ pending = EmptyBag
  /\ calls = 0
  /\ generatedIds = {}

\* ----------------------------------------------------------- user input
TypeForm ==
  \E in \in FormInputs :
    /\ form' = [title |-> in[1], body |-> in[2]]
    /\ UNCHANGED <<allPosts, posts, searchTerm, editingPost, loading, message,
                   pending, calls, generatedIds>>

\* ----------------------------------------------------------------- READ
loadAll ==
  /\ CanIssue
  /\ loading' = TRUE
  /\ message' = NoMessage
  /\ calls' = calls + 1
  /\ pending' = Send(pending, Request("getAll", NoPost))
  /\ UNCHANGED <<allPosts, posts, form, searchTerm, editingPost, generatedIds>>

\* Variant that appends the data to the list instead of replacing it.
loadAllNext_Appends(r, data) ==
  /\ r.kind = "getAll"
  /\ allPosts' = allPosts \o data
  /\ posts' = allPosts \o data
  /\ message' = MsgLoaded(Len(data))
  /\ loading' = FALSE
  /\ pending' = Done(pending, r)
  /\ UNCHANGED <<form, searchTerm, editingPost, calls, generatedIds>>

\* next, then complete: HttpClient delivers both on a successful response.
\* Variant with a staleness check: data arriving after another call has
\* completed in the meantime is discarded.
loadAllNext_DropsStale(r, data) ==
  /\ r.kind = "getAll"
  /\ allPosts' = IF loading THEN data ELSE allPosts
  /\ posts' = IF loading THEN data ELSE posts
  /\ message' = MsgLoaded(Len(data))
  /\ loading' = FALSE
  /\ pending' = Done(pending, r)
  /\ UNCHANGED <<form, searchTerm, editingPost, calls, generatedIds>>

loadAllNext(r, data) ==
  /\ r.kind = "getAll"
  /\ allPosts' = data
  /\ posts' = data
  /\ message' = MsgLoaded(Len(data))
  /\ loading' = FALSE
  /\ pending' = Done(pending, r)
  /\ UNCHANGED <<form, searchTerm, editingPost, calls, generatedIds>>

loadAllResponse ==
  \E r \in InFlight, data \in FetchResults : loadAllNext(r, data)

\* Variant that empties the lists on failure.
loadAllError_ClearsList(r) ==
  /\ r.kind = "getAll"
  /\ allPosts' = <<>>
  /\ posts' = <<>>
  /\ message' = MsgLoadError
  /\ pending' = Done(pending, r)
  /\ UNCHANGED <<form, searchTerm, editingPost, loading, calls, generatedIds>>

\* error: the observable ends without complete, so loading is not written.
loadAllError(r) ==
  /\ r.kind = "getAll"
  /\ message' = MsgLoadError
  /\ pending' = Done(pending, r)
  /\ UNCHANGED <<allPosts, posts, form, searchTerm, editingPost, loading,
                 calls, generatedIds>>

loadAllFailure == \E r \in InFlight : loadAllError(r)

\* The state resetForm leaves: form.reset(), editingPost null, message null.
ResetFormValue == [title |-> Null, body |-> Null]

\* --------------------------------------------------------------- CREATE
\* Invalid form: warning only (markAllAsTouched changes presentation flags,
\* which are not part of this state).
createInvalid ==
  /\ ~formValid(form)
  /\ message' = MsgWarning
  /\ UNCHANGED <<allPosts, posts, form, searchTerm, editingPost, loading,
                 pending, calls, generatedIds>>

create ==
  /\ formValid(form)
  /\ CanIssue
  /\ loading' = TRUE
  /\ calls' = calls + 1
  /\ pending' = Send(pending,
                  Request("create", Post(NoId, FixedUserId, form.title, form.body)))
  /\ UNCHANGED <<allPosts, posts, form, searchTerm, editingPost, message,
                 generatedIds>>

\* next: the entry the service echoes gets a local identifier and goes first;
\* the success message of line 108 is overwritten by resetForm (line 206).
\* Variant that keeps the identifier the service returned.
createNext_KeepsServerId(r, created) ==
  /\ r.kind = "create"
  /\ LET updatedPosts == <<created>> \o allPosts
     IN /\ allPosts' = updatedPosts
        /\ posts' = applyCurrentFilter(updatedPosts, searchTerm)
        /\ generatedIds' = generatedIds \cup {created.id}
  /\ form' = ResetFormValue
  /\ editingPost' = NoPost
  /\ message' = NoMessage
  /\ loading' = FALSE
  /\ pending' = Done(pending, r)
  /\ UNCHANGED <<searchTerm, calls>>

createNext(r, created) ==
  /\ r.kind = "create"
  /\ LET newPostWithId == [created EXCEPT !.id = generateNewId(allPosts)]
         updatedPosts == <<newPostWithId>> \o allPosts
     IN /\ allPosts' = updatedPosts
        /\ posts' = applyCurrentFilter(updatedPosts, searchTerm)
        /\ generatedIds' = generatedIds \cup {newPostWithId.id}
  /\ form' = ResetFormValue
  /\ editingPost' = NoPost
  /\ message' = NoMessage
  /\ loading' = FALSE
  /\ pending' = Done(pending, r)
  /\ UNCHANGED <<searchTerm, calls>>

\* The service answers a create call with the draft and an identifier of its own.
createResponse ==
  \E r \in InFlight, sid \in CreatedIds :
    createNext(r, [r.post EXCEPT !.id = sid])

createError(r) ==
  /\ r.kind = "create"
  /\ message' = MsgCreateError
  /\ pending' = Done(pending, r)
  /\ UNCHANGED <<allPosts, posts, form, searchTerm, editingPost, loading,
                 calls, generatedIds>>

createFailure == \E r \in InFlight : createError(r)

\* --------------------------------------------------------------- UPDATE
\* Variant that reports the refusal the way create does.
updateNoop_Warns ==
  /\ editingPost = NoPost \/ ~formValid(form)
  /\ message' = MsgWarning
  /\ UNCHANGED <<allPosts, posts, form, searchTerm, editingPost, loading,
                 pending, calls, generatedIds>>

updateNoop ==
  /\ editingPost = NoPost \/ ~formValid(form)
  /\ UNCHANGED vars

update ==
  /\ editingPost # NoPost
  /\ formValid(form)
  /\ CanIssue
  /\ loading' = TRUE
  /\ calls' = calls + 1
  /\ pending' = Send(pending,
                  Request("update",
                    Post(editingPost.id, editingPost.userId, form.title, form.body)))
  /\ UNCHANGED <<allPosts, posts, form, searchTerm, editingPost, message,
                 generatedIds>>

\* Variant that moves the updated entry to the front.
replaceById_ToFront(list, updatedPost) ==
  LET Other(p) == p.id # updatedPost.id
  IN IF \E k \in DOMAIN list : list[k].id = updatedPost.id
     THEN <<updatedPost>> \o SelectSeq(list, Other)
     ELSE list

replaceById(list, updatedPost) ==
  [k \in DOMAIN list |-> IF list[k].id = updatedPost.id THEN updatedPost ELSE list[k]]

\* next: the success message of line 143 is overwritten by resetForm.
updateNext(r) ==
  /\ r.kind = "update"
  /\ LET updatedPosts == replaceById(allPosts, r.post)
     IN /\ allPosts' = updatedPosts
        /\ posts' = applyCurrentFilter(updatedPosts, searchTerm)
  /\ form' = ResetFormValue
  /\ editingPost' = NoPost
  /\ message' = NoMessage
  /\ loading' = FALSE
  /\ pending' = Done(pending, r)
  /\ UNCHANGED <<searchTerm, calls, generatedIds>>

updateResponse == \E r \in InFlight : updateNext(r)

updateError(r) ==
  /\ r.kind = "update"
  /\ message' = MsgUpdateError
  /\ pending' = Done(pending, r)
  /\ UNCHANGED <<allPosts, posts, form, searchTerm, editingPost, loading,
                 calls, generatedIds>>

updateFailure == \E r \in InFlight : updateError(r)

\* --------------------------------------------------------------- DELETE
\* Variant in which a declined confirmation still calls the service.
deleteDeclined_StillCalls ==
  \E k \in DOMAIN posts :
    /\ CanIssue
    /\ pending' = Send(pending, Request("delete", posts[k]))
    /\ calls' = calls + 1
    /\ UNCHANGED <<allPosts, posts, form, searchTerm, editingPost, loading,
                   message, generatedIds>>

deleteDeclined ==
  \E k \in DOMAIN posts :
    UNCHANGED vars

delete ==
  \E k \in DOMAIN posts :
    /\ CanIssue
    /\ loading' = TRUE
    /\ calls' = calls + 1
    /\ pending' = Send(pending, Request("delete", posts[k]))
    /\ UNCHANGED <<allPosts, posts, form, searchTerm, editingPost, message,
                   generatedIds>>

\* Variant that drops only the entries equal to the deleted one field by field.
removeById_ByValue(list, post) ==
  LET Keep(p) == p # post IN SelectSeq(list, Keep)

removeById(list, post) ==
  LET Keep(p) == p.id # post.id IN SelectSeq(list, Keep)

\* Variant that does not re-apply the filter.
deleteNext_NoRefilter(r) ==
  /\ r.kind = "delete"
  /\ allPosts' = removeById(allPosts, r.post)
  /\ message' = MsgDeleted
  /\ loading' = FALSE
  /\ pending' = Done(pending, r)
  /\ UNCHANGED <<posts, form, searchTerm, editingPost, calls, generatedIds>>

deleteNext(r) ==
  /\ r.kind = "delete"
  /\ LET filteredPosts == removeById(allPosts, r.post)
     IN /\ allPosts' = filteredPosts
        /\ posts' = applyCurrentFilter(filteredPosts, searchTerm)
  /\ message' = MsgDeleted
  /\ loading' = FALSE
  /\ pending' = Done(pending, r)
  /\ UNCHANGED <<form, searchTerm, editingPost, calls, generatedIds>>

deleteResponse == \E r \in InFlight : deleteNext(r)

deleteError(r) ==
  /\ r.kind = "delete"
  /\ message' = MsgDeleteError
  /\ pending' = Done(pending, r)
  /\ UNCHANGED <<allPosts, posts, form, searchTerm, editingPost, loading,
                 calls, generatedIds>>

deleteFailure == \E r \in InFlight : deleteError(r)

\* ---------------------------------------------------------------- table
editPostOf(post) ==
  /\ editingPost' = post
  /\ form' = [title |-> post.title, body |-> post.body]
  /\ message' = MsgEditing(post.title)
  /\ UNCHANGED <<allPosts, posts, searchTerm, loading, pending, calls, generatedIds>>

\* The edit button of a table row.
editPost == \E k \in DOMAIN posts : editPostOf(posts[k])

\* Variant that resets the form but keeps the entry in edition.
cancelEdit_KeepsEditing ==
  /\ form' = ResetFormValue
  /\ message' = NoMessage
  /\ UNCHANGED <<allPosts, posts, searchTerm, editingPost, loading, pending,
                 calls, generatedIds>>

cancelEdit ==
  /\ form' = ResetFormValue
  /\ editingPost' = NoPost
  /\ message' = NoMessage
  /\ UNCHANGED <<allPosts, posts, searchTerm, loading, pending, calls, generatedIds>>

\* --------------------------------------------------------------- search
\* Variant that stores the term as typed.
searchFor_RawTerm(value) ==
  LET shown == applyCurrentFilter(allPosts, toLowerCase(value))
  IN /\ searchTerm' = value
     /\ posts' = shown
     /\ message' = IF trim(value) # <<>> THEN MsgFound(Len(shown), value)
                   ELSE NoMessage
     /\ UNCHANGED <<allPosts, form, editingPost, loading, pending, calls, generatedIds>>

searchFor(value) ==
  LET term == toLowerCase(value)
      shown == applyCurrentFilter(allPosts, term)
  IN /\ searchTerm' = term
     /\ posts' = shown
     /\ message' = IF trim(term) # <<>> THEN MsgFound(Len(shown), term)
                   ELSE NoMessage
     /\ UNCHANGED <<allPosts, form, editingPost, loading, pending, calls, generatedIds>>

search == \E value \in SearchInputs : searchFor(value)

\* Variant that empties the term but leaves the displayed list as filtered.
clearSearch_KeepsList ==
  /\ searchTerm' = <<>>
  /\ message' = NoMessage
  /\ UNCHANGED <<allPosts, posts, form, editingPost, loading, pending, calls,
                 generatedIds>>

clearSearch ==
  /\ searchTerm' = <<>>
  /\ posts' = applyCurrentFilter(allPosts, <<>>)
  /\ message' = NoMessage
  /\ UNCHANGED <<allPosts, form, editingPost, loading, pending, calls, generatedIds>>

Next ==
  \/ TypeForm
  \/ loadAll
  \/ loadAllResponse
  \/ loadAllFailure
  \/ createInvalid
  \/ create
  \/ createResponse
  \/ createFailure
  \/ updateNoop
  \/ update
  \/ updateResponse
  \/ updateFailure
  \/ deleteDeclined
  \/ delete
  \/ deleteResponse
  \/ deleteFailure
  \/ editPost
  \/ cancelEdit
  \/ search
  \/ clearSearch

Spec == Init /\ [][Next]_vars

\* ------------------------------------------------- search and edit alone
\* Specification of the handlers that issue no remote call, started from the
\* lists a session can hold: an entry created locally first (if any), then
\* what getAll delivered; loading can be left set by a failed call.
LocalPost == Post(IdFloor + 1, FixedUserId, <<"X">>, <<"B">>)

FilterLists == FetchResults \cup { <<LocalPost>> \o l : l \in FetchResults }

\* Search box values: blank, whitespace, text in either case, digits, a digit
\* after a space, no match.
FilterInputs ==
  { <<>>, <<" ">>, <<"h","e","l">>, <<"W","O","R","L","D">>, <<"7">>, <<"3">>,
    <<"1">>, <<" ","7">>, <<"z","z","z">> }

InitFilter ==
  /\ allPosts \in FilterLists
  /\ posts = allPosts
  /\ form = [title |-> <<>>, body |-> <<>>]
  /\ searchTerm = <<>>
  /\ editingPost = NoPost
  /\ loading \in BOOLEAN
  /\ message = NoMessage
  /\ pending = EmptyBag
  /\ calls = MaxCalls
  /\ generatedIds = { id \in Ids(allPosts) : id > IdFloor }

searchAny == \E value \in FilterInputs : searchFor(value)

NextFilter ==
  \/ searchAny
  \/ clearSearch
  \/ editPost
  \/ cancelEdit

SpecFilter == InitFilter /\ [][NextFilter]_vars

\* ------------------------------------------------------------ properties
Issued == BagCardinality(pending') = BagCardinality(pending) + 1

Completed == BagCardinality(pending') = BagCardinality(pending) - 1

ErrorMessages == {MsgLoadError, MsgCreateError, MsgUpdateError, MsgDeleteError}

\* C1: every step that issues a remote call sets loading, and every step
\* that completes the last outstanding call, with success or with failure,
\* leaves loading false.
C1_BusyClearedOnCompletion ==
  [][ /\ Issued => loading'
      /\ (Completed /\ pending' = EmptyBag) => ~loading' ]_vars

\* C2: a failure of getAll, create, update or delete leaves allPosts and
\* posts as they were and sets the error message of that operation.
C2_FailureKeepsLists ==
  [][ \A r \in InFlight :
        /\ (loadAllError(r) \/ createError(r) \/ updateError(r) \/ deleteError(r))
             => (allPosts' = allPosts /\ posts' = posts)
        /\ loadAllError(r) => message' = MsgLoadError
        /\ createError(r) => message' = MsgCreateError
        /\ updateError(r) => message' = MsgUpdateError
        /\ deleteError(r) => message' = MsgDeleteError ]_vars

\* A failure has been delivered while the lists held entries, part of them
\* filtered out.
C2_Witness ==
  /\ message \in ErrorMessages
  /\ posts # <<>>
  /\ posts # allPosts

\* C3: in every reachable state every entry of posts is an entry of allPosts.
C3_DisplayedWithinMirror ==
  \A k \in DOMAIN posts : \E j \in DOMAIN allPosts : allPosts[j] = posts[k]

\* A search holds back part of a list that a create or update has changed.
C3_Witness ==
  /\ posts # <<>>
  /\ Len(posts) < Len(allPosts)
  /\ \E j \in DOMAIN allPosts : allPosts[j] \notin ServerPosts

\* C4: in every reachable state no two entries of allPosts carry the same
\* identifier (getAll delivering pairwise distinct identifiers).
C4_UniqueIds ==
  \A j, k \in DOMAIN allPosts : j # k => allPosts[j].id # allPosts[k].id

\* Two create calls were in flight together and both have completed.
C4_Witness ==
  \E j, k \in DOMAIN allPosts :
    /\ j # k
    /\ allPosts[j].id > IdFloor
    /\ allPosts[k].id > IdFloor

CreateCompletes ==
  \E r \in InFlight, sid \in CreatedIds :
    createNext(r, [r.post EXCEPT !.id = sid])

\* C5: a successful create puts the new entry first, the previous entries
\* after it in their order, and its identifier is one more than the largest
\* of 100 and the identifiers allPosts holds when the response arrives.
C5_CreatePrependsWithNextId ==
  [][ CreateCompletes =>
        /\ Len(allPosts') = Len(allPosts) + 1
        /\ Tail(allPosts') = allPosts
        /\ LET newId == allPosts'[1].id
           IN /\ newId > IdFloor
              /\ \A k \in DOMAIN allPosts : newId > allPosts[k].id
              /\ \/ newId - 1 = IdFloor
                 \/ \E k \in DOMAIN allPosts : allPosts[k].id = newId - 1 ]_vars

\* A create completed on a list that already held identifier 101 and an
\* entry without identifier.
C5_Witness ==
  /\ Len(allPosts) >= 3
  /\ allPosts[1].id = IdFloor + 2
  /\ \E k \in DOMAIN allPosts : allPosts[k].id = NoId

\* C6 as stated: every generated identifier is greater than every
\* identifier generated earlier in the session.
C6_MonotonicInSession ==
  [][ CreateCompletes => \A g \in generatedIds : allPosts'[1].id > g ]_vars

\* C6 amended: every generated identifier is greater than 100 and greater
\* than every earlier generated identifier that allPosts still holds.
C6_AboveFloorAndHeldIds ==
  [][ CreateCompletes =>
        /\ allPosts'[1].id > IdFloor
        /\ \A g \in generatedIds :
             (\E k \in DOMAIN allPosts : allPosts[k].id = g) => allPosts'[1].id > g
        /\ generatedIds' = generatedIds \cup {allPosts'[1].id} ]_vars

\* Two identifiers were generated and allPosts holds both.
C6_Witness ==
  /\ Cardinality(generatedIds) = 2
  /\ \A g \in generatedIds : \E k \in DOMAIN allPosts : allPosts[k].id = g

\* C7: after a successful create or update the message is the success
\* message of that operation, editingPost is null and the form is cleared.
C7_SuccessMessageShown ==
  [][ /\ CreateCompletes =>
           /\ message' = MsgCreated(allPosts'[1].title)
           /\ editingPost' = NoPost
           /\ form' = ResetFormValue
      /\ (\E r \in InFlight : updateNext(r)) =>
           /\ message' = MsgUpdated
           /\ editingPost' = NoPost
           /\ form' = ResetFormValue ]_vars

\* C8: a successful getAll makes allPosts and posts the delivered list and
\* reports its length.
C8_LoadReplacesLists ==
  [][ \A r \in InFlight, data \in FetchResults :
        loadAllNext(r, data) =>
          /\ allPosts' = data
          /\ posts' = data
          /\ allPosts' \in FetchResults
          /\ message' = <<"posts cargados exitosamente", toString(Len(allPosts'))>> ]_vars

\* A load of two entries completed over a list holding a created entry,
\* while a search term was set.
C8_Witness ==
  /\ message = MsgLoaded(2)
  /\ Len(allPosts) = 2
  /\ generatedIds # {}
  /\ trim(searchTerm) # <<>>

\* The form is invalid as the claim words it.
FormInvalid ==
  \/ form.title = Null \/ form.title = <<>> \/ Len(form.title) > TitleMaxLength
  \/ form.body = Null \/ form.body = <<>> \/ Len(form.body) > BodyMaxLength

CreateIssued ==
  \E r \in BagToSet(pending') :
    /\ r.kind = "create"
    /\ pending' = Send(pending, r)

\* C9: with an invalid form no create call is issued, and create sets the
\* warning and leaves allPosts, posts, editingPost, searchTerm, loading and
\* the calls in flight unchanged.
C9_InvalidCreateIsLocal ==
  [][ FormInvalid =>
        /\ ~CreateIssued
        /\ createInvalid =>
             /\ message' = MsgWarning
             /\ UNCHANGED <<allPosts, posts, editingPost, searchTerm, loading,
                            pending, calls>> ]_vars

\* create was submitted with an over-long body while a call was in flight.
C9_Witness ==
  /\ message = MsgWarning
  /\ Len(form.body) > BodyMaxLength
  /\ pending # EmptyBag
  /\ allPosts # <<>>

\* C10: update sends the edited identifier and userId with the form's title
\* and body; its success keeps the length and the identifier order of
\* allPosts, gives the entry of that identifier the sent title and body with
\* identifier and userId as before, and leaves every other entry unchanged.
C10_UpdateReplacesInPlace ==
  [][ /\ update =>
           pending' = Send(pending, Request("update",
             Post(editingPost.id, editingPost.userId, form.title, form.body)))
      /\ \A r \in InFlight :
           updateNext(r) =>
             LET sent == r.post
             IN /\ Len(allPosts') = Len(allPosts)
                /\ \A k \in DOMAIN allPosts :
                     /\ allPosts'[k].id = allPosts[k].id
                     /\ allPosts'[k].userId = allPosts[k].userId
                     /\ allPosts[k].id = sent.id =>
                          /\ allPosts'[k].title = sent.title
                          /\ allPosts'[k].body = sent.body
                     /\ allPosts[k].id # sent.id => allPosts'[k] = allPosts[k] ]_vars

\* The second of three entries was updated to the typed title.
C10_Witness ==
  /\ Len(allPosts) = 3
  /\ allPosts[2].id = 7
  /\ allPosts[2].title = <<"X">>
  /\ allPosts[1].id > IdFloor

\* ------------------------------------------------------------------ C11
RECURSIVE WithoutId(_, _)
WithoutId(list, id) ==
  IF list = <<>> THEN <<>>
  ELSE IF Head(list).id = id THEN WithoutId(Tail(list), id)
       ELSE <<Head(list)>> \o WithoutId(Tail(list), id)

\* C11: a successful delete of the entry of identifier i leaves the mirror as
\* the previous mirror without the entries of identifier i, the others in
\* their previous order; the displayed list is the filter of that mirror under
\* the current search term; the status is the delete success message.
C11_DeleteRemovesById ==
  [][\A r \in InFlight :
       deleteNext(r) =>
         /\ allPosts' = WithoutId(allPosts, r.post.id)
         /\ posts' = applyCurrentFilter(allPosts', searchTerm)
         /\ searchTerm' = searchTerm
         /\ message' = MsgDeleted]_vars

\* A delete has succeeded, something is left in the mirror, a search is active.
C11_Witness ==
  /\ message = MsgDeleted
  /\ allPosts # <<>>
  /\ trim(searchTerm) # <<>>

\* ------------------------------------------------------------------ C12
DeleteIssued ==
  \E r \in BagToSet(pending') : r.kind = "delete" /\ pending' = Send(pending, r)

\* C12: a delete whose confirmation is declined issues no remote call and
\* leaves mirror, displayed list, busy flag, status, editing and search term
\* as they were; a delete request is only ever issued by the accepted branch.
C12_DeclinedDeleteIsNoop ==
  [][/\ deleteDeclined =>
          UNCHANGED <<allPosts, posts, loading, message, editingPost,
                      searchTerm, pending, calls>>
     /\ DeleteIssued => delete]_vars

\* Rows are shown, with a status, an entry in edition and a search active, and
\* a delete request is in flight: the confirmation has been both offered on
\* such rows and accepted at least once.
C12_Witness ==
  /\ posts # <<>>
  /\ message # NoMessage
  /\ editingPost # NoPost
  /\ trim(searchTerm) # <<>>
  /\ \E r \in InFlight : r.kind = "delete"

\* ------------------------------------------------------------------ C13
\* t occurs in s as a run of consecutive characters.
Contains(s, t) ==
  \E i \in 1..(Len(s) + 1) :
    \A j \in 1..Len(t) : i + j - 1 <= Len(s) /\ s[i + j - 1] = t[j]

Blank(value) == \A i \in DOMAIN value : value[i] = " "

Lowered(s) == [i \in DOMAIN s |-> LowerChar(s[i])]

Hit(p, value) ==
  \/ Contains(Lowered(p.title), Lowered(value))
  \/ Contains(Lowered(p.body), Lowered(value))
  \/ (p.id # NoId /\ Contains(toString(p.id), value))
  \/ Contains(toString(p.userId), value)

RECURSIVE Hits(_, _)
Hits(list, value) ==
  IF list = <<>> THEN <<>>
  ELSE IF Hit(Head(list), value) THEN <<Head(list)>> \o Hits(Tail(list), value)
       ELSE Hits(Tail(list), value)

\* C13: after a search with a non-blank term the displayed list is the
\* subsequence of the mirror, in mirror order, of the entries whose lowercased
\* title or body contains the lowercased term or whose identifier or owner id,
\* written in decimal, contains the term; with a blank or whitespace-only
\* term the displayed list is the mirror.
C13_SearchShowsMatches ==
  [][\A value \in FilterInputs :
       searchFor(value) =>
         posts' = IF Blank(value) THEN allPosts ELSE Hits(allPosts, value)]_vars

\* An upper-case term has selected some entries of the mirror and left others.
C13_Witness ==
  /\ searchTerm = <<"w","o","r","l","d">>
  /\ posts # <<>>
  /\ Len(posts) < Len(allPosts)

\* ------------------------------------------------------------------ C14
\* C14: clear-search, whatever was searched before, empties the search term,
\* makes the displayed list equal to the mirror (same entries, same order),
\* clears the status and leaves the mirror as it was.
C14_ClearSearchRestoresMirror ==
  [][clearSearch =>
       /\ searchTerm' = <<>>
       /\ posts' = allPosts'
       /\ message' = NoMessage
       /\ allPosts' = allPosts]_vars

\* The search box is clear and the whole mirror is shown, with no status while
\* an entry is in edition: the edit status has been replaced by a search's and
\* that one cleared.
C14_Witness ==
  /\ searchTerm = <<>>
  /\ Len(allPosts) > 1
  /\ posts = allPosts
  /\ message = NoMessage
  /\ editingPost # NoPost

\* ------------------------------------------------------------------ C15
\* C15: a search stores the lowercased term; for a non-blank term the status
\* reports as count the length of the displayed list just derived, for a blank
\* or whitespace-only term the status is cleared; mirror, editing and busy
\* flag are left as they were.
C15_SearchStoresLowercasedTerm ==
  [][\A value \in FilterInputs :
       searchFor(value) =>
         /\ searchTerm' = Lowered(value)
         /\ Blank(value) => message' = NoMessage
         /\ ~Blank(value) =>
              message' = <<"posts encontrados para", toString(Len(posts')),
                           Lowered(value)>>
         /\ UNCHANGED <<allPosts, editingPost, loading>>]_vars

\* The status counts the rows found for a term typed in upper case, while an
\* entry is in edition and the busy flag is set.
C15_Witness ==
  /\ searchTerm = <<"w","o","r","l","d">>
  /\ message = MsgFound(Len(posts), searchTerm)
  /\ editingPost # NoPost
  /\ loading

\* ------------------------------------------------------------------ C16
UpdateIssued ==
  \E r \in BagToSet(pending') : r.kind = "update" /\ pending' = Send(pending, r)

\* C16: submitting an update with no entry in edition, or with an invalid
\* form, issues no remote call and leaves mirror, displayed list, editing,
\* busy flag and status as they were.
C16_UpdateNoopIsSilent ==
  [][/\ updateNoop =>
          UNCHANGED <<allPosts, posts, editingPost, loading, message, pending,
                      calls>>
     /\ (editingPost = NoPost \/ FormInvalid) => ~UpdateIssued]_vars

\* An entry is in edition with an invalid form and the edit status still
\* shown, nothing in flight.
C16_Witness ==
  /\ editingPost # NoPost
  /\ FormInvalid
  /\ message = MsgEditing(editingPost.title)
  /\ allPosts # <<>>
  /\ pending = EmptyBag

\* ------------------------------------------------------------------ C17
\* C17: begin-edit of a row puts that entry in edition, fills the form with
\* its title and body and sets the informational status; cancel-edit puts no
\* entry in edition, resets the form and clears the status; both leave mirror,
\* displayed list, search term and busy flag as they were.
C17_EditAndCancelFrames ==
  [][/\ \A k \in DOMAIN posts :
          editPostOf(posts[k]) =>
            /\ editingPost' = posts[k]
            /\ form' = [title |-> posts[k].title, body |-> posts[k].body]
            /\ message' = <<"Editando", posts[k].title>>
            /\ UNCHANGED <<allPosts, posts, searchTerm, loading>>
     /\ cancelEdit =>
          /\ editingPost' = NoPost
          /\ form' = [title |-> Null, body |-> Null]
          /\ message' = NoMessage
          /\ UNCHANGED <<allPosts, posts, searchTerm, loading>>]_vars

\* A row found by a search is in edition, its text in the form, the edit
\* status shown, the busy flag set.
C17_Witness ==
  /\ editingPost # NoPost
  /\ form = [title |-> editingPost.title, body |-> editingPost.body]
  /\ message = MsgEditing(editingPost.title)
  /\ trim(searchTerm) # <<>>
  /\ Len(posts) < Len(allPosts)
  /\ loading

\* ------------------------------------------------------------------ C18
\* Body length the README and the Post interface document.
DocBodyMaxLength == 800

DocFormInvalid ==
  \/ form.title = Null \/ form.title = <<>> \/ Len(form.title) > TitleMaxLength
  \/ form.body = Null \/ form.body = <<>> \/ Len(form.body) > DocBodyMaxLength

\* C18: the form accepts a body of up to 800 characters: a create is refused
\* only when title or body is missing, the title is longer than 100 characters
\* or the body longer than 800, and a create submitted with a form within
\* those limits issues the create call.
C18_BodyUpTo800Accepted ==
  [][/\ createInvalid => DocFormInvalid
     /\ CreateIssued => ~DocFormInvalid]_vars

\* ------------------------------------------------------------------ C19
\* A call in flight while loading is FALSE: every call sets loading when it is
\* issued and only a successful completion clears it, so another call has
\* succeeded since this one was issued, while both were outstanding.
Overtaken(r) == r \in InFlight /\ ~loading

LoadedMessages == { MsgLoaded(n) : n \in 0..Cardinality(ServerPosts) }

\* C19: overlapping calls are not fenced and the later completion wins. A
\* load that completes after a create succeeded during its flight replaces
\* the mirror with the fetched list, so the created entry is gone; a create
\* that completes after a load succeeded during its flight prepends its entry
\* to the fetched list.
C19_LaterCompletionWins ==
  [][/\ \A r \in InFlight, data \in FetchResults :
          (Overtaken(r) /\ loadAllNext(r, data)) =>
            /\ allPosts' = data
            /\ \A k \in DOMAIN allPosts' : allPosts'[k].id <= IdFloor
     /\ \A r \in InFlight :
          (/\ Overtaken(r)
           /\ message \in LoadedMessages
           /\ \E sid \in CreatedIds :
                createNext(r, [r.post EXCEPT !.id = sid])) =>
            /\ allPosts \in FetchResults
            /\ Len(allPosts') = Len(allPosts) + 1
            /\ Tail(allPosts') = allPosts
            /\ Head(allPosts').id = IdFloor + 1
            /\ Head(allPosts').title = r.post.title]_vars

\* Two calls were issued, a load and a create; the create has succeeded, its
\* entry is alone in the mirror, and the load is still in flight.
C19_Witness ==
  /\ calls = 2
  /\ BagCardinality(pending) = 1
  /\ \E r \in InFlight : r.kind = "getAll" /\ Overtaken(r)
  /\ Len(allPosts) = 1
  /\ allPosts[1].id = IdFloor + 1

\* ------------------------------------------------------------------ C20
\* C20: in every reachable state the displayed list is the filter of the
\* mirror under the stored search term.
C20_DisplayedIsFilterOfMirror ==
  posts = IF Blank(searchTerm) THEN allPosts ELSE Hits(allPosts, searchTerm)

\* ------------------------------------------------------------------ C21
\* C21: the busy flag is set in every state in which a remote call issued by
\* load, create, update or delete is still outstanding.
C21_BusyWhileOutstanding ==
  pending # EmptyBag => loading

\* ------------------------------------------------------------------ C22
\* C22: whenever an entry is in edition the mirror holds an entry with its
\* identifier.
C22_EditedEntryInMirror ==
  editingPost # NoPost =>
    \E k \in DOMAIN allPosts : allPosts[k].id = editingPost.id

====
